---- MODULE Spec2Model ----
(***************************************************************************)
(* State machines of the two widgets of steps-selector-ui:                 *)
(*   - StepsSelector (<steps-selector>): steps, dirty, initialValue,       *)
(*     the change notification of the steps setter and the rendered        *)
(*     completion lists;                                                   *)
(*   - PopinDialog (popin-dialog.ts): the hidden attribute, focus, the     *)
(*     resize listener, the deferred ensureElementInView and the style     *)
(*     offsets it writes.                                                  *)
(* One action is one task of the browser's event loop: a handler or a      *)
(* public method run to completion, followed by the microtask checkpoint   *)
(* in which Lit performs the update that the handler requested.            *)
(***************************************************************************)
EXTENDS Integers, Sequences, FiniteSets, TLC

\* ------------------------------------------------------------------ bounds

\* Longest step sequence the model lets the editor hold.
MaxLen == 3

\* Most deferred ensureElementInView calls (setTimeout tasks) pending at once.
MaxTimers == 2

\* ------------------------------------------------------------ editor: data

\* A Step is identified by its name (the key used by completion.find).
Names == {"A", "B"}

\* The value of `completion.find(...)` when nothing matches, and of an
\* argument the caller left undefined.
Undefined == "undefined"

\* event.detail.value of a step-item's "set" event: a candidate's name or a
\* name that no Step carries.
EventValues == Names \cup {"Q"}

\* The index arguments tried: one negative, every position, and past the end.
Indices == -1 .. MaxLen

Min(a, b) == IF a < b THEN a ELSE b
Max(a, b) == IF a > b THEN a ELSE b

\* Array.prototype.slice(start, end) on a 0-based array held as a 1-based
\* sequence: negative arguments count from the end, both are clamped to
\* [0, length], and an empty range gives the empty array.
Slice(s, start, end) ==
  LET len  == Len(s)
      from == IF start < 0 THEN Max(len + start, 0) ELSE Min(start, len)
      to   == IF end < 0 THEN Max(len + end, 0) ELSE Min(end, len)
  IN  IF from < to THEN SubSeq(s, from + 1, to) ELSE << >>

\* Array.prototype.slice(start): to the end of the array.
SliceFrom(s, start) == Slice(s, start, Len(s))

\* The completion functions an editor can hold: the default of the class,
\* () => [], and one supplied by the host, in which the candidates depend on
\* the last step of the prefix.
DefaultCompletion(prefix) == << >>

HostCompletion(prefix) ==
  IF prefix = << >> THEN <<"A", "B">>
  ELSE IF prefix[Len(prefix)] = "A" THEN <<"B">>
  ELSE <<"A", "B">>

CompletionOf(which, prefix) ==
  IF which = "host" THEN HostCompletion(prefix) ELSE DefaultCompletion(prefix)

\* Mutant of Find: the name of the event is taken as the step, with no lookup
\* among the candidates.
FindUnchecked(candidates, value) == value

\* completion.find(step => step.name === value): the first candidate with
\* that name, undefined when there is none.
Find(candidates, value) ==
  IF \E i \in 1 .. Len(candidates) : candidates[i] = value
  THEN candidates[CHOOSE i \in 1 .. Len(candidates) :
                    /\ candidates[i] = value
                    /\ \A j \in 1 .. i - 1 : candidates[j] # value]
  ELSE Undefined

VARIABLES
  steps,         \* StepsSelector._steps
  dirty,         \* StepsSelector._dirty
  initialValue,  \* StepsSelector.initialValue
  completion,    \* which completion function the editor holds
  rendered,      \* the step-items of the last render: [step, completion]
  changes,       \* the "change" events dispatched by the last task
  errors,        \* the console.error calls of the last task
  last,          \* the last task: [op, from, at, step, value, wasDirty, wasLen]
  snapshot       \* history: [saved, steps], the steps held when save() was last called

editorVars == <<steps, dirty, initialValue, completion, rendered, changes, errors,
                last, snapshot>>

VARIABLES
  hidden,           \* PopinDialog: the hidden attribute is present
  focused,          \* the panel is the document's focused element
  connected,        \* the panel is attached to the document
  updatingEnabled,  \* Lit has enabled updates (first connectedCallback ran)
  listeners,        \* window "resize" listeners registered by this panel
  timers,           \* the pending setTimeout(() => this.ensureElementInView()) tasks, oldest
                    \* first: for each, the number of renders since the one that set it
  styleLeft,        \* this.style.left: NoOffset or Px(n)
  styleTop,         \* this.style.top: NoOffset or Px(n)
  natural,          \* the panel's box with no offset: [left, top, width, height]
  viewport,         \* [width |-> window.innerWidth, height |-> window.innerHeight]
  dispatched,       \* the events the panel dispatched in the last task
  plast             \* the last task of the panel: [op, key, recomputed, later]

panelVars == <<hidden, focused, connected, updatingEnabled, listeners, timers,
               styleLeft, styleTop, natural, viewport, dispatched, plast>>

vars == <<editorVars, panelVars>>

\* ------------------------------------------------------ editor: operations

\* The editor's fields as one record, so that a method is the composition of
\* its statements in their order.
Editor ==
  [steps |-> steps, dirty |-> dirty, initialValue |-> initialValue,
   changes |-> << >>, errors |-> 0, updateRequested |-> FALSE]

\* set dirty(value): stores the flag and requests an update.
SetDirty(e, value) ==
  [e EXCEPT !.dirty = value, !.updateRequested = TRUE]

\* Mutant of SetSteps: "change" is dispatched only when the new array differs
\* from the old one.
SetStepsIfChanged(e, value) ==
  [e EXCEPT !.steps = value,
            !.updateRequested = TRUE,
            !.changes = IF value = e.steps THEN e.changes
                        ELSE Append(e.changes, [value |-> value, dirtySeen |-> e.dirty])]

\* set steps(value): stores the array, requests an update and dispatches
\* "change" with detail.value = value. The event also records the dirty flag a
\* listener reads while it is being delivered.
SetSteps(e, value) ==
  [e EXCEPT !.steps = value,
            !.updateRequested = TRUE,
            !.changes = Append(e.changes, [value |-> value, dirtySeen |-> e.dirty])]

ConsoleError(e) == [e EXCEPT !.errors = e.errors + 1]

\* Mutant of setStepAt: no check that the step is defined.
setStepAtUnguarded(e, at, step) ==
  SetDirty(SetSteps(e, Slice(e.steps, 0, at) \o <<step>> \o SliceFrom(e.steps, at + 1)),
           TRUE)

\* Mutant of setStepAt: the step is stored at its index (steps[at] = step), and
\* an index past the end leaves undefined elements before it.
setStepAtByIndex(e, at, step) ==
  IF step # Undefined
  THEN LET len == Len(e.steps)
           padded == IF at > len
                     THEN e.steps \o [k \in 1 .. at - len |-> Undefined]
                     ELSE Slice(e.steps, 0, at)
       IN  SetDirty(SetSteps(e, padded \o <<step>> \o SliceFrom(e.steps, at + 1)), TRUE)
  ELSE ConsoleError(e)

\* Mutant of setStepAt: the steps after the replaced one are dropped.
setStepAtTruncating(e, at, step) ==
  IF step # Undefined
  THEN SetDirty(SetSteps(e, Slice(e.steps, 0, at) \o <<step>>), TRUE)
  ELSE ConsoleError(e)

setStepAt(e, at, step) ==
  IF step # Undefined
  THEN SetDirty(SetSteps(e, Slice(e.steps, 0, at) \o <<step>> \o SliceFrom(e.steps, at + 1)),
                TRUE)
  ELSE ConsoleError(e)

\* Mutant of deleteStepAt: a call that removes nothing is skipped.
deleteStepAtIfAny(e, at) ==
  IF at >= Len(e.steps) THEN e
  ELSE SetDirty(SetSteps(e, Slice(e.steps, 0, at)), TRUE)

\* Mutant of deleteStepAt: only the step at the index is removed.
deleteStepAtSingle(e, at) ==
  SetDirty(SetSteps(e, Slice(e.steps, 0, at) \o SliceFrom(e.steps, at + 1)), TRUE)

deleteStepAt(e, at) ==
  SetDirty(SetSteps(e, Slice(e.steps, 0, at)), TRUE)

\* Mutant of save: the flag is cleared and the steps are not stored.
saveFlagOnly(e) == SetDirty(e, FALSE)

save(e) ==
  [SetDirty(e, FALSE) EXCEPT !.initialValue = e.steps]

\* Mutant of reset: the saved value is consumed by the reset.
resetConsuming(e) ==
  [SetSteps(SetDirty(e, FALSE), e.initialValue) EXCEPT !.initialValue = << >>]

\* Mutant of reset: the flag is cleared and steps is left as it is.
resetFlagOnly(e) == SetDirty(e, FALSE)

reset(e) ==
  SetSteps(SetDirty(e, FALSE), e.initialValue)

\* Mutant of RenderItems: one more item is rendered after the last step, from
\* which the next step can be chosen.
RenderItemsAndNext(st, which) ==
  [i \in 1 .. Len(st) + 1 |->
     [step |-> IF i <= Len(st) THEN st[i] ELSE Undefined,
      completion |-> CompletionOf(which, Slice(st, 0, i - 1))]]

\* Mutant of RenderItems: an item whose step did not change keeps the
\* candidates it was rendered with.
RenderItemsKeyed(st, which) ==
  [i \in 1 .. Len(st) |->
     IF i <= Len(rendered) /\ rendered[i].step = st[i]
     THEN rendered[i]
     ELSE [step |-> st[i], completion |-> CompletionOf(which, Slice(st, 0, i - 1))]]

\* render(): one step-item per step, each with the completion of the steps
\* before it.
RenderItems(st, which) ==
  [i \in 1 .. Len(st) |->
     [step |-> st[i], completion |-> CompletionOf(which, Slice(st, 0, i - 1))]]

\* The end of a task: the fields are stored and, if an update was requested,
\* Lit renders. The task is recorded with the dirty flag and the length of
\* steps it started from.
Commit(e, l) ==
  /\ steps' = e.steps
  /\ dirty' = e.dirty
  /\ initialValue' = e.initialValue
  /\ changes' = e.changes
  /\ errors' = e.errors
  /\ rendered' = IF e.updateRequested THEN RenderItems(e.steps, completion) ELSE rendered
  /\ last' = [l EXCEPT !.wasDirty = dirty, !.wasLen = Len(steps)]
  /\ snapshot' = IF l.op = "save" THEN [saved |-> TRUE, steps |-> steps] ELSE snapshot
  /\ UNCHANGED <<completion, panelVars>>

NoCall ==
  [op |-> "none", from |-> "none", at |-> 0, step |-> Undefined, value |-> Undefined,
   wasDirty |-> FALSE, wasLen |-> 0]

\* The host calls setStepAt(at, step).
SetStepAt ==
  \E at \in Indices, step \in Names \cup {Undefined} :
    LET e == setStepAt(Editor, at, step) IN
    /\ Len(e.steps) <= MaxLen
    /\ Commit(e, [NoCall EXCEPT !.op = "setStepAt", !.from = "host", !.at = at, !.step = step])

\* The host calls deleteStepAt(at).
DeleteStepAt ==
  \E at \in Indices :
    Commit(deleteStepAt(Editor, at),
           [NoCall EXCEPT !.op = "deleteStepAt", !.from = "host", !.at = at])

\* A rendered step-item fires "set" with a name: the handler of that item
\* resolves the name in the completion it was rendered with.
ItemSet ==
  \E index \in 0 .. Len(rendered) - 1, value \in EventValues :
    LET step == Find(rendered[index + 1].completion, value)
        e == setStepAt(Editor, index, step) IN
    /\ Len(e.steps) <= MaxLen
    /\ Commit(e, [NoCall EXCEPT !.op = "setStepAt", !.from = "item", !.at = index,
                                !.step = step, !.value = value])

\* A rendered step-item fires "delete".
ItemDelete ==
  \E index \in 0 .. Len(rendered) - 1 :
    Commit(deleteStepAt(Editor, index),
           [NoCall EXCEPT !.op = "deleteStepAt", !.from = "item", !.at = index])

Save ==
  Commit(save(Editor), [NoCall EXCEPT !.op = "save", !.from = "host"])

\* reset(), called by the host or by a click on the dirty icon.
Reset ==
  Commit(reset(Editor), [NoCall EXCEPT !.op = "reset", !.from = "host"])

\* ------------------------------------------------------------- panel: data

\* The null of an attribute value and of a key that was not pressed.
None == "none"

\* style.left / style.top hold '' (no offset) or `${n}px`.
NoOffset == << >>
Px(n) == <<n>>

\* Geometry tried, in px. Offsets written to style.left / style.top are taken in
\* the coordinates of getBoundingClientRect (the panel's containing block sits
\* at the viewport's origin and the page is not scrolled), as the component's
\* arithmetic assumes.
Lefts == {-1, 0, 1, 2}
Widths == {1, 2, 3, 4}
Tops == {-1, 0, 2}
Heights == {1, 3}
ViewportWidths == {2, 3}
ViewportHeights == {2, 3}

Keys == {"Escape", "Enter"}

\* The panel's fields as one record, so that a handler is the composition of
\* its statements in their order.
Panel ==
  [hidden |-> hidden, focused |-> focused, connected |-> connected,
   updatingEnabled |-> updatingEnabled, listeners |-> listeners,
   styleLeft |-> styleLeft, styleTop |-> styleTop,
   updateRequested |-> FALSE, recomputed |-> 0, dispatched |-> << >>]

\* HTMLElement.focus(): only an attached element that is displayed takes focus.
ElementFocus(p) ==
  IF p.connected /\ ~p.hidden THEN [p EXCEPT !.focused = TRUE] ELSE p

\* Mutant of attributeChangedCallback: the panel is not focused when the
\* attribute is removed.
attributeChangedNoFocus(p, old, value) ==
  IF old # value THEN [p EXCEPT !.updateRequested = TRUE] ELSE p

\* attributeChangedCallback("hidden", old, value): Lit stores the property and
\* requests an update when it changed; a removed attribute focuses the panel.
attributeChangedCallback(p, old, value) ==
  LET q == IF old # value THEN [p EXCEPT !.updateRequested = TRUE] ELSE p
  IN  IF value = None THEN ElementFocus(q) ELSE q

\* setAttribute("hidden", ""): the attribute is present, and the custom
\* element's reaction runs.
SetHiddenAttribute(p) ==
  attributeChangedCallback([p EXCEPT !.hidden = TRUE],
                           IF p.hidden THEN "" ELSE None, "")

\* removeAttribute("hidden"): nothing happens when the attribute is absent.
RemoveHiddenAttribute(p) ==
  IF p.hidden
  THEN attributeChangedCallback([p EXCEPT !.hidden = FALSE], "", None)
  ELSE p

\* Mutant of blured: the hidden attribute is not set.
bluredKeepsVisible(p) == p

blured(p) == SetHiddenAttribute(p)

\* The panel loses focus: the blur event runs onblur.
LoseFocus(p) == blured([p EXCEPT !.focused = FALSE])

\* HTMLElement.blur(): nothing happens unless the element has focus.
ElementBlur(p) == IF p.focused THEN LoseFocus(p) ELSE p

keydown(p, key) == IF key = "Escape" THEN ElementBlur(p) ELSE p

\* getBoundingClientRect() once style.left and style.top are reset: the
\* natural box, or an empty box when the panel is not displayed.
BoundingClientRect(p) ==
  IF p.connected /\ ~p.hidden
  THEN [left |-> natural.left, top |-> natural.top,
        right |-> natural.left + natural.width,
        bottom |-> natural.top + natural.height,
        width |-> natural.width, height |-> natural.height]
  ELSE [left |-> 0, top |-> 0, right |-> 0, bottom |-> 0, width |-> 0, height |-> 0]

\* Mutant of ClampLeft: the offset for a panel past the right edge is taken
\* from its right edge instead of its width.
ClampLeftFromRight(rect, viewportWidth) ==
  LET right == IF rect.right > viewportWidth THEN Px(viewportWidth - rect.right) ELSE NoOffset
  IN  IF rect.left < 0 THEN Px(0) ELSE right

\* The two horizontal checks of ensureElementInView, in their order.
ClampLeft(rect, viewportWidth) ==
  LET right == IF rect.right > viewportWidth THEN Px(viewportWidth - rect.width) ELSE NoOffset
  IN  IF rect.left < 0 THEN Px(0) ELSE right

\* The two vertical checks of ensureElementInView, in their order.
ClampTop(rect, viewportHeight) ==
  LET bottom == IF rect.bottom > viewportHeight THEN Px(viewportHeight - rect.height) ELSE NoOffset
  IN  IF rect.top < 0 THEN Px(0) ELSE bottom

\* Mutant of ensureElementInView: style.left and style.top are not reset first,
\* so the box is measured where the last offsets put it and an offset stays
\* when no check fires.
ensureElementInViewNoReset(p, vp) ==
  LET rect == BoundingClientRect(p)
      dx == IF p.styleLeft = NoOffset THEN 0 ELSE p.styleLeft[1] - rect.left
      dy == IF p.styleTop = NoOffset THEN 0 ELSE p.styleTop[1] - rect.top
      moved == IF p.connected /\ ~p.hidden
               THEN [rect EXCEPT !.left = rect.left + dx, !.right = rect.right + dx,
                                 !.top = rect.top + dy, !.bottom = rect.bottom + dy]
               ELSE rect
      left == ClampLeft(moved, vp.width)
      top == ClampTop(moved, vp.height)
  IN  [p EXCEPT !.styleLeft = IF left = NoOffset THEN p.styleLeft ELSE left,
                !.styleTop = IF top = NoOffset THEN p.styleTop ELSE top,
                !.recomputed = p.recomputed + 1]

ensureElementInView(p, vp) ==
  LET rect == BoundingClientRect(p)
  IN  [p EXCEPT !.styleLeft = ClampLeft(rect, vp.width),
                !.styleTop = ClampTop(rect, vp.height),
                !.recomputed = p.recomputed + 1]

\* window.addEventListener("resize", f): a listener already registered is not
\* registered twice.
AddResizeListener(p) == [p EXCEPT !.listeners = IF p.listeners = 0 THEN 1 ELSE p.listeners]

\* Mutant of RemoveResizeListener: the function passed is not the one that was
\* registered, so nothing is removed.
RemoveOtherListener(p) == p

\* window.removeEventListener("resize", f).
RemoveResizeListener(p) == [p EXCEPT !.listeners = 0]

connectedCallback(p) ==
  AddResizeListener([p EXCEPT !.connected = TRUE,
                              !.updateRequested = p.updateRequested \/ ~p.updatingEnabled,
                              !.updatingEnabled = TRUE])

disconnectedCallback(p) ==
  [RemoveResizeListener(p) EXCEPT !.connected = FALSE]

\* The panel's current box: the natural box moved to the style offsets.
BoxLeft == IF styleLeft = NoOffset THEN natural.left ELSE styleLeft[1]
BoxTop == IF styleTop = NoOffset THEN natural.top ELSE styleTop[1]

\* ------------------------------------------------------- panel: operations

NoTask == [op |-> "none", key |-> None, recomputed |-> 0, later |-> 0]

\* Mutant of SetTimeout: a render sets no new task while one is pending.
SetTimeoutUnlessPending(t) ==
  IF t = << >> THEN <<0>> ELSE [i \in 1 .. Len(t) |-> t[i] + 1]

\* render(): setTimeout(() => this.ensureElementInView()) queues one task for
\* this render, behind the tasks of the renders before it, which are now one
\* render older.
SetTimeout(t) == Append([i \in 1 .. Len(t) |-> t[i] + 1], 0)

\* The end of a task: the fields are stored and, if an update was requested
\* and updates are enabled, Lit renders; render() defers ensureElementInView.
\* `later` is, for a deferred task that ran, the number of renders between the
\* one that set it and its run.
PanelCommit(p, t, vp, op, key, later) ==
  LET renders == p.updateRequested /\ p.updatingEnabled
      pending == IF renders THEN SetTimeout(t) ELSE t
  IN  /\ Len(pending) <= MaxTimers
      /\ hidden' = p.hidden
      /\ focused' = p.focused
      /\ connected' = p.connected
      /\ updatingEnabled' = p.updatingEnabled
      /\ listeners' = p.listeners
      /\ styleLeft' = p.styleLeft
      /\ styleTop' = p.styleTop
      /\ timers' = pending
      /\ viewport' = vp
      /\ dispatched' = p.dispatched
      /\ plast' = [op |-> op, key |-> key, recomputed |-> p.recomputed, later |-> later]
      /\ UNCHANGED <<natural, editorVars>>

\* The panel is attached to the document.
Connect ==
  /\ ~connected
  /\ PanelCommit(connectedCallback(Panel), timers, viewport, "connect", None, 0)

\* The panel is removed from the document; if it had focus it loses it, and
\* the browser may or may not deliver a blur event to it.
Disconnect ==
  /\ connected
  /\ \E blurFires \in (IF focused THEN BOOLEAN ELSE {FALSE}) :
       LET p == disconnectedCallback(Panel)
           q == IF blurFires THEN LoseFocus(p) ELSE [p EXCEPT !.focused = FALSE]
       IN  PanelCommit(q, timers, viewport, "disconnect", None, 0)

\* The host removes the hidden attribute.
Show ==
  /\ hidden
  /\ PanelCommit(RemoveHiddenAttribute(Panel), timers, viewport, "show", None, 0)

\* The host sets the hidden attribute; a focused panel stops being displayed
\* and loses focus.
Hide ==
  /\ ~hidden
  /\ PanelCommit([SetHiddenAttribute(Panel) EXCEPT !.focused = FALSE],
                 timers, viewport, "hide", None, 0)

\* The user clicks outside or tabs away.
Blur ==
  /\ focused
  /\ PanelCommit(LoseFocus(Panel), timers, viewport, "blur", None, 0)

\* A key is pressed while the panel has focus.
Keydown ==
  /\ focused
  /\ \E key \in Keys :
       PanelCommit(keydown(Panel, key), timers, viewport, "keydown", key, 0)

\* The host calls focus() on the panel, or the user tabs or clicks to it.
Focus ==
  PanelCommit(ElementFocus(Panel), timers, viewport, "focus", None, 0)

\* The window is resized: every registered listener runs.
Resize ==
  \E w \in ViewportWidths, h \in ViewportHeights :
    LET vp == [width |-> w, height |-> h]
        p == IF listeners > 0 THEN ensureElementInView(Panel, vp) ELSE Panel
    IN  /\ vp # viewport
        /\ PanelCommit(p, timers, vp, "resize", None, 0)

\* The oldest deferred ensureElementInView runs, on the layout of the last
\* render.
Timer ==
  /\ timers # << >>
  /\ PanelCommit(ensureElementInView(Panel, viewport), Tail(timers), viewport,
                 "timer", None, Head(timers))

\* ------------------------------------------------------------------- specs

EditorInit ==
  /\ steps = << >>
  /\ dirty = FALSE
  /\ initialValue = << >>
  /\ rendered = << >>
  /\ changes = << >>
  /\ errors = 0
  /\ last = NoCall
  /\ snapshot = [saved |-> FALSE, steps |-> << >>]

\* The panel after its constructor: not attached, hidden or not as the host's
\* markup says, no offset.
PanelInit ==
  /\ focused = FALSE
  /\ connected = FALSE
  /\ updatingEnabled = FALSE
  /\ listeners = 0
  /\ timers = << >>
  /\ styleLeft = NoOffset
  /\ styleTop = NoOffset
  /\ dispatched = << >>
  /\ plast = NoTask

\* The editor, beside a panel that is left alone.
Init ==
  /\ EditorInit
  /\ completion \in {"default", "host"}
  /\ PanelInit
  /\ hidden = TRUE
  /\ natural = [left |-> 0, top |-> 0, width |-> 1, height |-> 1]
  /\ viewport = [width |-> 2, height |-> 2]

Next ==
  \/ SetStepAt
  \/ DeleteStepAt
  \/ ItemSet
  \/ ItemDelete
  \/ Save
  \/ Reset

Spec == Init /\ [][Next]_vars

\* The panel, beside an editor that is left alone.
PanelSpecInit ==
  /\ EditorInit
  /\ completion = "default"
  /\ PanelInit
  /\ hidden \in BOOLEAN
  /\ natural \in [left : Lefts, top : Tops, width : Widths, height : Heights]
  /\ viewport \in [width : ViewportWidths, height : ViewportHeights]

PanelNext ==
  \/ Connect
  \/ Disconnect
  \/ Show
  \/ Hide
  \/ Blur
  \/ Keydown
  \/ Focus
  \/ Resize
  \/ Timer

PanelSpec == PanelSpecInit /\ [][PanelNext]_vars

\* ------------------------------------------------------------------ claims

\* The task recorded in last / plast was a setStepAt that got a defined step.
SetStepAtSucceeded(l) == l.op = "setStepAt" /\ l.step # Undefined

\* The first i elements of a sequence (all of it when it has fewer).
Prefix(st, i) == [k \in 1 .. (IF i < Len(st) THEN i ELSE Len(st)) |-> st[k]]

\* The candidates at index i (0-based) of a sequence: completion(steps[0..i)).
CandidatesAt(st, i) == CompletionOf(completion, Prefix(st, i))

IsCandidate(st, i, name) ==
  \E k \in 1 .. Len(CandidatesAt(st, i)) : CandidatesAt(st, i)[k] = name

\* C1. Dirty monotonicity: a setStepAt with a defined step and any
\* deleteStepAt (also one whose index is past the end and removes nothing)
\* leave dirty true, and dirty goes from true to false only in save() or
\* reset().
C1_DirtyMonotone ==
  [][ /\ SetStepAtSucceeded(last') => dirty'
      /\ last'.op = "deleteStepAt" => dirty'
      /\ (dirty /\ ~dirty') => last'.op \in {"save", "reset"} ]_vars

\* C1 witness: from a clean editor, a deleteStepAt past the end of steps
\* removed nothing and left dirty set.
C1_Witness ==
  /\ last.op = "deleteStepAt"
  /\ ~last.wasDirty
  /\ last.at > last.wasLen
  /\ Len(steps) = last.wasLen
  /\ dirty

\* C2. Save/reset round trip: after a reset() that follows a save(), whatever
\* setStepAt and deleteStepAt calls came in between, steps is the sequence
\* held when save() was called and dirty is false.
C2_SaveResetRoundTrip ==
  (last.op = "reset" /\ snapshot.saved) => (steps = snapshot.steps /\ ~dirty)

\* C2 witness: a reset() of a dirty editor restored a saved sequence of three
\* steps.
C2_Witness ==
  /\ last.op = "reset"
  /\ last.wasDirty
  /\ snapshot.saved
  /\ Len(snapshot.steps) = 3
  /\ steps = snapshot.steps

\* C3 as claimed. Rejected selection is a no-op: setStepAt(i, Z) with Z not a
\* member of completion(steps[0..i)) leaves steps and dirty unchanged and
\* reports an error.
C3_Original ==
  [][ (last'.op = "setStepAt" /\ last'.at >= 0
         /\ ~IsCandidate(steps, last'.at, last'.step))
      => (steps' = steps /\ dirty' = dirty /\ errors' > 0) ]_vars

\* C3 as amended. A step-item's "set" selection of a name that no member of
\* completion(steps[0..i)) carries, at a rendered index i, leaves steps and
\* dirty unchanged, dispatches no change and logs one error; the check is the
\* lookup of the item's handler, not setStepAt's.
C3_RejectedSelection ==
  [][ (last'.op = "setStepAt" /\ last'.from = "item"
         /\ ~IsCandidate(steps, last'.at, last'.value))
      => (steps' = steps /\ dirty' = dirty /\ changes' = << >> /\ errors' = 1) ]_vars

\* C3 witness: with the host's completion, an item was asked for the name of a
\* Step that is not among its candidates, and the selection was rejected.
C3_Witness ==
  /\ completion = "host"
  /\ last.op = "setStepAt"
  /\ last.from = "item"
  /\ last.value \in Names
  /\ last.step = Undefined
  /\ errors = 1
  /\ changes = << >>

\* C4. setStepAt with an undefined step changes none of steps, dirty and
\* initialValue, dispatches no change and logs an error.
C4_UndefinedStepNoOp ==
  [][ (last'.op = "setStepAt" /\ last'.step = Undefined)
      => /\ steps' = steps
         /\ dirty' = dirty
         /\ initialValue' = initialValue
         /\ changes' = << >>
         /\ errors' = 1 ]_vars

\* C4 witness: the host called setStepAt(at, undefined) on a non-empty clean
\* sequence.
C4_Witness ==
  /\ last.op = "setStepAt"
  /\ last.from = "host"
  /\ last.step = Undefined
  /\ steps # << >>
  /\ ~dirty
  /\ errors = 1

\* C5. Delete forward: deleteStepAt(i) with 0 <= i <= length leaves exactly
\* the first i steps, in their order.
C5_DeleteForward ==
  [][ (last'.op = "deleteStepAt" /\ 0 <= last'.at /\ last'.at <= Len(steps))
      => steps' = Prefix(steps, last'.at) ]_vars

\* C5 witness: deleteStepAt(1) on three steps left one step.
C5_Witness ==
  /\ last.op = "deleteStepAt"
  /\ last.at = 1
  /\ last.wasLen = 3
  /\ Len(steps) = 1

\* C6. Retain tail: setStepAt(i, s) with a defined s and 0 <= i < length keeps
\* the length, puts s at i and leaves every other step as it was.
C6_RetainTail ==
  [][ (SetStepAtSucceeded(last') /\ 0 <= last'.at /\ last'.at < Len(steps))
      => /\ Len(steps') = Len(steps)
         /\ steps'[last'.at + 1] = last'.step
         /\ \A k \in 1 .. Len(steps) : k # last'.at + 1 => steps'[k] = steps[k] ]_vars

\* C6 witness: the middle one of three steps was replaced and three remain.
C6_Witness ==
  /\ SetStepAtSucceeded(last)
  /\ last.at = 1
  /\ last.wasLen = 3
  /\ Len(steps) = 3
  /\ steps[2] = last.step

\* C7. Change notification: a setStepAt with a defined step, a deleteStepAt
\* and a reset each dispatch exactly one change whose value is the new steps;
\* save and a setStepAt with an undefined step dispatch none.
C7_ChangeNotification ==
  /\ (SetStepAtSucceeded(last) \/ last.op \in {"deleteStepAt", "reset"})
       => (Len(changes) = 1 /\ changes[1].value = steps)
  /\ (last.op = "save" \/ (last.op = "setStepAt" /\ last.step = Undefined))
       => changes = << >>

\* C7 witness: a deleteStepAt that removed nothing still dispatched one change
\* carrying the steps.
C7_Witness ==
  /\ last.op = "deleteStepAt"
  /\ last.at >= last.wasLen
  /\ last.wasLen = 2
  /\ Len(changes) = 1
  /\ changes[1].value = steps

\* C8. Completion freshness: after the render that ends a task, there is one
\* item per step and the candidates of item i are completion(steps[0..i)) of
\* the current steps.
C8_CompletionFreshness ==
  /\ Len(rendered) = Len(steps)
  /\ \A i \in 1 .. Len(steps) :
       /\ rendered[i].step = steps[i]
       /\ rendered[i].completion = CandidatesAt(steps, i - 1)

\* C8 witness: the first of two steps was replaced by "B"; the second step is
\* still "B", and its candidates are those that follow "B", not those that
\* follow "A".
C8_Witness ==
  /\ completion = "host"
  /\ SetStepAtSucceeded(last)
  /\ last.at = 0
  /\ last.wasLen = 2
  /\ steps = <<"B", "B">>
  /\ rendered[2].completion = <<"A", "B">>
  /\ HostCompletion(<<"A">>) # HostCompletion(<<"B">>)

DismissedBy(t) == t.op = "blur" \/ (t.op = "keydown" /\ t.key = "Escape")

\* C10 as claimed. From a visible, focused panel, a blur and an Escape key
\* both lead to hidden; re-focusing the panel after either leads to visible.
C10_Original ==
  [][ /\ (focused /\ ~hidden /\ DismissedBy(plast')) => hidden'
      /\ (hidden /\ DismissedBy(plast) /\ plast'.op = "focus") => ~hidden' ]_vars

\* C10 as amended. From a visible, focused panel, a blur and an Escape key
\* both lead to hidden; re-focusing the panel after either leaves it hidden,
\* and removing the hidden attribute of the attached panel after either makes
\* it visible, with focus.
C10_EscapeBlurUnify ==
  [][ /\ (focused /\ ~hidden /\ DismissedBy(plast')) => hidden'
      /\ (hidden /\ DismissedBy(plast) /\ plast'.op = "focus") => hidden'
      /\ (hidden /\ DismissedBy(plast) /\ plast'.op = "show" /\ connected)
           => (~hidden' /\ focused') ]_vars

\* C10 witness: the Escape key, pressed while the attached panel had focus,
\* hid it.
C10_Witness ==
  /\ plast.op = "keydown"
  /\ plast.key = "Escape"
  /\ connected
  /\ hidden
  /\ ~focused

\* C11 as claimed. Visibility notifications: a task in which the panel goes
\* from hidden to visible dispatches "popin-dialog-opened", and one in which
\* it goes from visible to hidden dispatches "popin-dialog-closed".
C11_VisibilityNotifications ==
  [][ /\ (hidden /\ ~hidden')
           => \E i \in 1 .. Len(dispatched') : dispatched'[i] = "popin-dialog-opened"
      /\ (~hidden /\ hidden')
           => \E i \in 1 .. Len(dispatched') : dispatched'[i] = "popin-dialog-closed" ]_vars

\* C12. Resize-listener lifecycle: the panel has one resize listener while it
\* is attached and none while it is detached, over any sequence of attaches
\* and detaches; a resize runs ensureElementInView once for an attached panel
\* and never for a detached one.
C12_ResizeListenerLifecycle ==
  /\ listeners = (IF connected THEN 1 ELSE 0)
  /\ plast.op = "resize" => plast.recomputed = (IF connected THEN 1 ELSE 0)

\* C12 witness: the panel was attached again (its first attach renders and
\* leaves a deferred task; this one did not) and holds one listener.
C12_Witness ==
  /\ plast.op = "connect"
  /\ connected
  /\ timers = << >>
  /\ listeners = 1

\* The panel is laid out: attached and not hidden.
Displayed == connected /\ ~hidden

\* C13 as claimed. After ensureElementInView, the offsets depend on the natural
\* box and the viewport alone: left is viewportWidth - width if the right edge
\* is past the viewport, else 0 if the left edge is negative, else unset; top
\* likewise with the height; a panel that is not laid out gets no offset.
C13_Original ==
  plast.recomputed > 0 =>
    /\ styleLeft =
         (IF Displayed /\ natural.left + natural.width > viewport.width
            THEN Px(viewport.width - natural.width)
          ELSE IF Displayed /\ natural.left < 0 THEN Px(0)
          ELSE NoOffset)
    /\ styleTop =
         (IF Displayed /\ natural.top + natural.height > viewport.height
            THEN Px(viewport.height - natural.height)
          ELSE IF Displayed /\ natural.top < 0 THEN Px(0)
          ELSE NoOffset)

\* C13 as amended. The same, with the two checks of an axis in the order the
\* code gives them effect: left is 0 if the left edge is negative, else
\* viewportWidth - width if the right edge is past the viewport, else unset;
\* top likewise.
C13_RecomputeFromNaturalBox ==
  plast.recomputed > 0 =>
    /\ styleLeft =
         (IF Displayed /\ natural.left < 0 THEN Px(0)
          ELSE IF Displayed /\ natural.left + natural.width > viewport.width
            THEN Px(viewport.width - natural.width)
          ELSE NoOffset)
    /\ styleTop =
         (IF Displayed /\ natural.top < 0 THEN Px(0)
          ELSE IF Displayed /\ natural.top + natural.height > viewport.height
            THEN Px(viewport.height - natural.height)
          ELSE NoOffset)

\* C13 witness: a panel wider than the viewport, over both its edges, was
\* pinned to the left edge; on the other axis it was moved up from the bottom.
C13_Witness ==
  /\ plast.recomputed > 0
  /\ Displayed
  /\ natural.left < 0
  /\ natural.left + natural.width > viewport.width
  /\ styleLeft = Px(0)
  /\ natural.top >= 0
  /\ natural.top + natural.height > viewport.height
  /\ styleTop = Px(viewport.height - natural.height)

\* C14 as claimed. Un-hide captures focus: whenever the hidden attribute is
\* removed the panel is visible and has focus afterwards, and the panel gains
\* focus by itself in no other task (a focus that the host or the user gives
\* it is not its own doing).
C14_Original ==
  [][ /\ plast'.op = "show" => (~hidden' /\ focused')
      /\ (~focused /\ focused') => plast'.op \in {"show", "focus"} ]_vars

\* C14 as amended. The same for an attached panel: a panel that is not in the
\* document becomes visible when the attribute is removed, and takes no focus.
C14_UnhideCapturesFocus ==
  [][ /\ (plast'.op = "show" /\ connected) => (~hidden' /\ focused')
      /\ (plast'.op = "show" /\ ~connected) => (~hidden' /\ ~focused')
      /\ (~focused /\ focused') => plast'.op \in {"show", "focus"} ]_vars

\* C14 witness: the hidden attribute of an attached panel was removed, and the
\* panel has focus.
C14_Witness ==
  /\ plast.op = "show"
  /\ connected
  /\ ~hidden
  /\ focused

\* C15 as claimed. Deferred recompute ordering: every render sets one deferred
\* ensureElementInView, and the task runs on the layout of the render that
\* set it: no render has happened in between.
C15_Original ==
  plast.op = "timer" => plast.later = 0

\* C15 as amended. Every render sets one deferred ensureElementInView, and
\* the task runs on the layout of the last render so far, which is the render
\* that set it or a later one: the renders in between are exactly those whose
\* own tasks are still pending behind it.
C15_DeferredRecompute ==
  [][ /\ plast'.op = "timer" => (plast'.later = Len(timers) - 1 /\ plast'.recomputed = 1)
      /\ plast'.op # "timer" => Len(timers') \in {Len(timers), Len(timers) + 1}
      /\ \A i \in 1 .. Len(timers') : timers'[i] = Len(timers') - i ]_vars

\* C15 witness: a deferred task ran after a later render, whose own task is
\* still pending.
C15_Witness ==
  /\ plast.op = "timer"
  /\ plast.later = 1
  /\ timers = <<0>>

\* The task recorded in l assigned steps through setStepAt or deleteStepAt.
Mutated(l) == SetStepAtSucceeded(l) \/ l.op = "deleteStepAt"

\* C16 as claimed. dirty is true in every state an observer sees once
\* setStepAt or deleteStepAt has assigned steps: after the call, and in the
\* listener of the change event the call dispatches.
C16_DirtyWhenObserved ==
  Mutated(last) =>
    /\ dirty
    /\ \A i \in 1 .. Len(changes) : changes[i].dirtySeen

\* C17. Frame: initialValue changes only in save(); setStepAt, deleteStepAt
\* and reset leave it as it is; steps changes only in setStepAt,
\* deleteStepAt and reset, and save leaves it as it is.
C17_Frame ==
  [][ /\ initialValue' # initialValue => last'.op = "save"
      /\ last'.op \in {"setStepAt", "deleteStepAt", "reset"} => initialValue' = initialValue
      /\ steps' # steps => last'.op \in {"setStepAt", "deleteStepAt", "reset"}
      /\ last'.op = "save" => steps' = steps ]_vars

\* C17 witness: after a save, a setStepAt changed steps and initialValue still
\* holds the saved steps.
C17_Witness ==
  /\ SetStepAtSucceeded(last)
  /\ ~last.wasDirty
  /\ snapshot.saved
  /\ Len(snapshot.steps) = 2
  /\ initialValue = snapshot.steps
  /\ steps # initialValue

\* C18. From the initial state, after any sequence of setStepAt,
\* deleteStepAt, save and reset: when dirty is false, steps equals
\* initialValue.
C18_CleanMeansSaved ==
  ~dirty => steps = initialValue

\* C18 witness: a dirty editor was saved with three steps.
C18_Witness ==
  /\ last.op = "save"
  /\ last.wasDirty
  /\ ~dirty
  /\ Len(steps) = 3
  /\ steps = initialValue

C20_AppendPastEnd ==
  [][ (SetStepAtSucceeded(last') /\ last'.at >= Len(steps))
      => steps' = Append(steps, last'.step) ]_vars

\* C20 witness: setStepAt two past the end of one step gave two steps.
C20_Witness ==
  /\ SetStepAtSucceeded(last)
  /\ last.wasLen = 1
  /\ last.at = 3
  /\ Len(steps) = 2
  /\ steps[2] = last.step

====
